---------------------------- MODULE Spec2Model ----------------------------
(***************************************************************************)
(* A model of libntfs-3g/decompress_common.h: the input bitstream shared   *)
(* by the XPRESS and LZX decompressors, the Huffman symbol reader and the  *)
(* LZ77 match copier.                                                      *)
(***************************************************************************)
EXTENDS Integers, Sequences, FiniteSets

(***************************************************************************)
(* Bounds of the model.                                                    *)
(***************************************************************************)
\* Largest number of 16-bit coding units the reference writer emits.
MaxUnits == 2
\* How far below zero (mod 2^32) the model follows a bit count that an
\* unguarded bitstream_remove_bits() has wrapped.
MaxUnder == 3

(***************************************************************************)
(* Program constants.                                                      *)
(***************************************************************************)
\* Bits in one coding unit ("is->bitsleft += 16").
UnitBits == 16
\* Width of the bit buffer variable, a u32.
BufBits == 32
\* Bits and values of one byte (u8).
ByteBits == 8
ByteRange == 256

(***************************************************************************)
(* Fixed-width integers.  A u32 that is shifted or or-ed (the bit buffer   *)
(* variable, a 32-bit load) is the vector of its 32 bits, most significant *)
(* first.  A u32 that only counts (bitsleft, length) is the signed 32-bit  *)
(* integer with the same bits, so that 0 - 1 is -1 and stands for          *)
(* 0xFFFFFFFF; ULess compares two such counters as unsigned numbers.       *)
(***************************************************************************)
RECURSIVE BitsValue(_)
\* The number whose binary digits, most significant first, are the sequence.
BitsValue(bs) ==
    IF bs = <<>> THEN 0
    ELSE 2 * BitsValue(SubSeq(bs, 1, Len(bs) - 1)) + bs[Len(bs)]

RECURSIVE ToBits(_, _)
\* The w low binary digits of v, most significant first.
ToBits(v, w) ==
    IF w = 0 THEN <<>> ELSE Append(ToBits(v \div 2, w - 1), v % 2)

Zeros(n) == [i \in 1 .. n |-> 0]

Zero32 == Zeros(BufBits)

\* (u32)v for a 16-bit v.
Widen(v) == Zeros(BufBits - UnitBits) \o ToBits(v, UnitBits)

\* x << n and x >> n on a u32, for 0 <= n <= 32.
Shl32(x, n) == SubSeq(x, n + 1, BufBits) \o Zeros(n)
Shr32(x, n) == Zeros(n) \o SubSeq(x, 1, BufBits - n)

Or32(a, b) == [i \in 1 .. BufBits |-> IF a[i] + b[i] > 0 THEN 1 ELSE 0]

\* The value of a u32 known to fit 16 bits.
Low16(x) == BitsValue(SubSeq(x, BufBits - UnitBits + 1, BufBits))
High16(x) == BitsValue(SubSeq(x, 1, BufBits - UnitBits))

\* a < b for two u32 counters.
ULess(a, b) ==
    IF (a < 0) = (b < 0) THEN a < b ELSE b < 0

(***************************************************************************)
(* The reference bit writer: bits are stored in little endian 16-bit       *)
(* coding units, with the bits ordered high to low; the last unit is       *)
(* padded with zero bits.                                                  *)
(***************************************************************************)
PadBits(bs) ==
    bs \o [i \in 1 .. ((UnitBits - (Len(bs) % UnitBits)) % UnitBits) |-> 0]

RECURSIVE RefWrite(_)
RefWrite(bs) ==
    IF bs = <<>> THEN <<>>
    ELSE LET p == PadBits(bs)
             u == BitsValue(SubSeq(p, 1, UnitBits))
         IN  <<u % ByteRange, u \div ByteRange>>
                 \o RefWrite(SubSeq(p, UnitBits + 1, Len(p)))

VARIABLES
    input,      \* the input buffer, a sequence of bytes
    bits,       \* the bit sequence the buffer was written from
    is,         \* struct input_bitstream
    last,       \* the last operation: name, argument, result, state before
    rpos,       \* how much of what was written has been read back by a run of
                \* read(n) calls alone (in bits) or of read_huffsym() calls
                \* alone (in symbols); -1 when the run was none of these
    hst,        \* the Huffman code in use: lens, decode_table and parameters
    obuf        \* the output buffer of the match copier and its cursor

vars == <<input, bits, is, last, rpos, hst, obuf>>

(***************************************************************************)
(* Unaligned little endian loads.  A load records the offsets it touches   *)
(* in "touched", a history field of the stream it is made for: the offsets *)
(* the current operation has read from the input buffer.                   *)
(***************************************************************************)
ByteAt(buf, off) == IF off >= 0 /\ off < Len(buf) THEN buf[off + 1] ELSE 0

\* A big endian load in place of the little endian one.
get_unaligned_be16(buf, off) == ByteRange * ByteAt(buf, off) + ByteAt(buf, off + 1)

get_unaligned_le16(buf, off) == ByteAt(buf, off) + ByteRange * ByteAt(buf, off + 1)

\* The u32 whose bytes, least significant first, are p[0], p[1], p[2], p[3].
get_unaligned_le32(buf, off) ==
    ToBits(ByteAt(buf, off + 3), ByteBits) \o ToBits(ByteAt(buf, off + 2), ByteBits)
        \o ToBits(ByteAt(buf, off + 1), ByteBits) \o ToBits(ByteAt(buf, off), ByteBits)

Touch(s, off, count) == [s EXCEPT !.touched = @ \cup (off .. (off + count - 1))]

(***************************************************************************)
(* struct input_bitstream and its operations.  "next" and "end" are        *)
(* offsets into the input buffer.  "unit" is a second history field: the   *)
(* last refill of the bit buffer took a coding unit from the input (and    *)
(* did not pad with zero bits).                                            *)
(***************************************************************************)
init_input_bitstream(buffer) ==
    [bitbuf |-> Zero32, bitsleft |-> 0, next |-> 0, end |-> Len(buffer),
     touched |-> {}, unit |-> FALSE]

\* A refill that takes a unit when a single byte is left.
ensure_bits_one_byte(buf, s, num_bits) ==
    IF ULess(s.bitsleft, num_bits)
    THEN IF s.end - s.next >= 1
         THEN [Touch(s, s.next, 2) EXCEPT
                  !.bitbuf = Or32(s.bitbuf,
                                  Shl32(Widen(get_unaligned_le16(buf, s.next)),
                                        UnitBits - s.bitsleft)),
                  !.next = s.next + 2,
                  !.bitsleft = s.bitsleft + UnitBits,
                  !.unit = TRUE]
         ELSE [s EXCEPT !.bitsleft = s.bitsleft + UnitBits, !.unit = FALSE]
    ELSE s

\* A refill that puts the unit at bits 31..16 whatever the bit buffer holds.
ensure_bits_fixed_shift(buf, s, num_bits) ==
    IF ULess(s.bitsleft, num_bits)
    THEN IF s.end - s.next >= 2
         THEN [Touch(s, s.next, 2) EXCEPT
                  !.bitbuf = Or32(s.bitbuf,
                                  Shl32(Widen(get_unaligned_le16(buf, s.next)),
                                        UnitBits)),
                  !.next = s.next + 2,
                  !.bitsleft = s.bitsleft + UnitBits,
                  !.unit = TRUE]
         ELSE [s EXCEPT !.bitsleft = s.bitsleft + UnitBits, !.unit = FALSE]
    ELSE s

bitstream_ensure_bits(buf, s, num_bits) ==
    IF ULess(s.bitsleft, num_bits)
    THEN IF s.end - s.next >= 2
         THEN [Touch(s, s.next, 2) EXCEPT
                  !.bitbuf = Or32(s.bitbuf,
                                  Shl32(Widen(get_unaligned_le16(buf, s.next)),
                                        UnitBits - s.bitsleft)),
                  !.next = s.next + 2,
                  !.bitsleft = s.bitsleft + UnitBits,
                  !.unit = TRUE]
         ELSE [s EXCEPT !.bitsleft = s.bitsleft + UnitBits, !.unit = FALSE]
    ELSE s

bitstream_peek_bits(s, num_bits) ==
    IF num_bits = 0 THEN Zero32 ELSE Shr32(s.bitbuf, BufBits - num_bits)

\* A remove that counts the bits down and leaves them in the bit buffer.
remove_bits_no_shift(s, num_bits) ==
    [s EXCEPT !.bitsleft = s.bitsleft - num_bits]

bitstream_remove_bits(s, num_bits) ==
    [s EXCEPT !.bitbuf = Shl32(s.bitbuf, num_bits),
              !.bitsleft = s.bitsleft - num_bits]

\* The pair <<bits, stream after>>.
bitstream_pop_bits(s, num_bits) ==
    <<bitstream_peek_bits(s, num_bits), bitstream_remove_bits(s, num_bits)>>

bitstream_read_bits(buf, s, num_bits) ==
    bitstream_pop_bits(bitstream_ensure_bits(buf, s, num_bits), num_bits)

bitstream_read_byte(buf, s) ==
    IF s.end = s.next THEN <<0, s>>
    ELSE <<ByteAt(buf, s.next), [Touch(s, s.next, 1) EXCEPT !.next = s.next + 1]>>

bitstream_read_u16(buf, s) ==
    IF s.end - s.next < 2 THEN <<0, s>>
    ELSE <<get_unaligned_le16(buf, s.next),
           [Touch(s, s.next, 2) EXCEPT !.next = s.next + 2]>>

bitstream_read_u32(buf, s) ==
    IF s.end - s.next < 4 THEN <<Zero32, s>>
    ELSE <<get_unaligned_le32(buf, s.next),
           [Touch(s, s.next, 4) EXCEPT !.next = s.next + 4]>>

\* A pointer into dst_buffer, as a sequence: empty for NULL, else its offset.
NULL == <<>>
Ptr(off) == <<off>>

\* A bulk read that refuses the last count bytes of the buffer.
read_bytes_strict(buf, s, count) ==
    IF s.end - s.next <= count THEN <<NULL, <<>>, s>>
    ELSE <<Ptr(count),
           [i \in 1 .. count |-> ByteAt(buf, s.next + i - 1)],
           [Touch(s, s.next, count) EXCEPT !.next = s.next + count]>>

\* <<returned pointer, bytes copied to dst_buffer, stream after>>.
bitstream_read_bytes(buf, s, count) ==
    IF s.end - s.next < count THEN <<NULL, <<>>, s>>
    ELSE <<Ptr(count),
           [i \in 1 .. count |-> ByteAt(buf, s.next + i - 1)],
           [Touch(s, s.next, count) EXCEPT !.next = s.next + count]>>

\* An align that forgets the bit count.
align_keeps_count(s) == [s EXCEPT !.bitbuf = Zero32, !.unit = FALSE]

bitstream_align(s) == [s EXCEPT !.bitsleft = 0, !.bitbuf = Zero32, !.unit = FALSE]

(***************************************************************************)
(* The inputs.  A bit sequence is a prefix of one of two patterns whose    *)
(* periods do not divide a coding unit; a buffer is what the reference     *)
(* writer makes of it, with "cut" bytes missing at its end (a truncated    *)
(* stream), so that buffers of every size up to 2 * MaxUnits occur.        *)
(***************************************************************************)
PatA == <<1, 0, 1, 1, 0, 0, 1>>
PatB == <<0, 1, 1, 1, 0, 1, 0, 0, 0, 1, 1>>
Patterns == {PatA, PatB}

PatBits(pat, n) == [i \in 1 .. n |-> pat[((i - 1) % Len(pat)) + 1]]

MaxBits == UnitBits * MaxUnits
BitSeqs == {PatBits(pat, n) : pat \in Patterns, n \in 0 .. MaxBits}

Truncate(buf, cut) == SubSeq(buf, 1, IF Len(buf) >= cut THEN Len(buf) - cut ELSE 0)

Widths == 0 .. UnitBits

Clean(s) == [s EXCEPT !.touched = {}]

Rec(name, n, ret, out) ==
    [op |-> name, n |-> n, ret |-> ret, out |-> out, pre |-> Clean(is)]

InitReader ==
    /\ is = init_input_bitstream(input)
    /\ last = [op |-> "init", n |-> 0, ret |-> 0, out |-> <<>>,
               pre |-> init_input_bitstream(input)]

\* No Huffman code, no output buffer: the bit reader on its own.
NoHuff == [lens |-> <<>>, table_bits |-> 0, max_codeword_len |-> 0,
           decode_table |-> <<>>, syms |-> <<>>]
NoOutput == [buf |-> <<>>, dst |-> 0]

\* Every operation of the bit reader, on a buffer of any size.
Init ==
    /\ hst = NoHuff
    /\ obuf = NoOutput
    /\ bits = PatBits(PatB, MaxBits)
    /\ \E cut \in 0 .. (2 * MaxUnits) : input = Truncate(RefWrite(bits), cut)
    /\ InitReader
    /\ rpos = -1

\* The bit count stays in the range the model follows.
Capped(b) == b >= 0 - MaxUnder

Ensure(n) ==
    /\ is' = bitstream_ensure_bits(input, Clean(is), n)
    /\ last' = Rec("ensure", n, 0, <<>>)
    /\ rpos' = -1
    /\ UNCHANGED <<input, bits, hst, obuf>>

\* peek, remove and pop called as documented: after bitstream_ensure_bits(),
\* for no more bits than the buffer variable holds.
Peek(n) ==
    /\ ~ULess(is.bitsleft, n)
    /\ is' = Clean(is)
    /\ last' = Rec("peek", n, bitstream_peek_bits(is, n), <<>>)
    /\ rpos' = -1
    /\ UNCHANGED <<input, bits, hst, obuf>>

Remove(n) ==
    /\ ~ULess(is.bitsleft, n)
    /\ Capped(is.bitsleft - n)
    /\ is' = bitstream_remove_bits(Clean(is), n)
    /\ last' = Rec("remove", n, 0, <<>>)
    /\ rpos' = -1
    /\ UNCHANGED <<input, bits, hst, obuf>>

Pop(n) ==
    /\ ~ULess(is.bitsleft, n)
    /\ Capped(is.bitsleft - n)
    /\ LET r == bitstream_pop_bits(Clean(is), n)
       IN  /\ is' = r[2]
           /\ last' = Rec("pop", n, r[1], <<>>)
    /\ rpos' = -1
    /\ UNCHANGED <<input, bits, hst, obuf>>

Read(n) ==
    /\ LET r == bitstream_read_bits(input, Clean(is), n)
       IN  /\ Capped(r[2].bitsleft)
           /\ is' = r[2]
           /\ last' = Rec("read", n, r[1], <<>>)
    /\ rpos' = IF rpos >= 0 /\ rpos + n <= Len(bits) THEN rpos + n ELSE -1
    /\ UNCHANGED <<input, bits, hst, obuf>>

ReadByte ==
    /\ LET r == bitstream_read_byte(input, Clean(is))
       IN  /\ is' = r[2]
           /\ last' = Rec("read_byte", 0, r[1], <<>>)
    /\ rpos' = -1
    /\ UNCHANGED <<input, bits, hst, obuf>>

ReadU16 ==
    /\ LET r == bitstream_read_u16(input, Clean(is))
       IN  /\ is' = r[2]
           /\ last' = Rec("read_u16", 0, r[1], <<>>)
    /\ rpos' = -1
    /\ UNCHANGED <<input, bits, hst, obuf>>

ReadU32 ==
    /\ LET r == bitstream_read_u32(input, Clean(is))
       IN  /\ is' = r[2]
           /\ last' = Rec("read_u32", 0, r[1], <<>>)
    /\ rpos' = -1
    /\ UNCHANGED <<input, bits, hst, obuf>>

ReadBytes(count) ==
    /\ LET r == bitstream_read_bytes(input, Clean(is), count)
       IN  /\ is' = r[3]
           /\ last' = Rec("read_bytes", count, r[1], r[2])
    /\ rpos' = -1
    /\ UNCHANGED <<input, bits, hst, obuf>>

Align ==
    /\ is' = bitstream_align(Clean(is))
    /\ last' = Rec("align", 0, 0, <<>>)
    /\ rpos' = -1
    /\ UNCHANGED <<input, bits, hst, obuf>>

Next ==
    \/ \E n \in Widths : Ensure(n)
    \/ \E n \in Widths : Peek(n)
    \/ \E n \in Widths : Remove(n)
    \/ \E n \in Widths : Pop(n)
    \/ \E n \in Widths : Read(n)
    \/ ReadByte
    \/ ReadU16
    \/ ReadU32
    \/ \E count \in 0 .. (Len(input) + 1) : ReadBytes(count)
    \/ Align

Spec == Init /\ [][Next]_vars

(***************************************************************************)
(* The reader used for bits alone: a buffer written by the reference       *)
(* writer, read back by bitstream_read_bits() in any chunking.             *)
(***************************************************************************)
InitRT ==
    /\ hst = NoHuff
    /\ obuf = NoOutput
    /\ bits \in BitSeqs
    /\ input = RefWrite(bits)
    /\ InitReader
    /\ rpos = 0

NextRT == \E n \in Widths : Read(n)

SpecRT == InitRT /\ [][NextRT]_vars

(***************************************************************************)
(* The reader used in any order: peek, remove and pop also when the bit    *)
(* buffer holds fewer bits than asked for, which wraps the bit count.      *)
(***************************************************************************)
PeekUnder(n) ==
    /\ ULess(is.bitsleft, n)
    /\ is' = Clean(is)
    /\ last' = Rec("peek", n, bitstream_peek_bits(is, n), <<>>)
    /\ UNCHANGED <<input, bits, rpos, hst, obuf>>

RemoveUnder(n) ==
    /\ ULess(is.bitsleft, n)
    /\ Capped(is.bitsleft - n)
    /\ is' = bitstream_remove_bits(Clean(is), n)
    /\ last' = Rec("remove", n, 0, <<>>)
    /\ UNCHANGED <<input, bits, rpos, hst, obuf>>

PopUnder(n) ==
    /\ ULess(is.bitsleft, n)
    /\ Capped(is.bitsleft - n)
    /\ LET r == bitstream_pop_bits(Clean(is), n)
       IN  /\ is' = r[2]
           /\ last' = Rec("pop", n, r[1], <<>>)
    /\ UNCHANGED <<input, bits, rpos, hst, obuf>>

NextAny ==
    \/ Next
    \/ \E n \in Widths : PeekUnder(n)
    \/ \E n \in Widths : RemoveUnder(n)
    \/ \E n \in Widths : PopUnder(n)

SpecAny == Init /\ [][NextAny]_vars

(***************************************************************************)
(* Properties of the bit reader.                                           *)
(***************************************************************************)
Pre == last.pre
Left(s) == s.end - s.next
Le16At(off) == input[off + 1] + ByteRange * input[off + 2]
SameBits(s, t) == s.bitbuf = t.bitbuf /\ s.bitsleft = t.bitsleft
Literal == {"read_byte", "read_u16", "read_u32", "read_bytes"}

\* C1: after init(buffer, size) and any sequence of bit-reader operations, in
\* any order (also peek, remove and pop of more bits than the bit buffer holds),
\* the byte cursor satisfies start <= next <= end, with end the size of the
\* buffer, and no operation reads an input byte at an offset >= size.
C1_CursorInBounds ==
    /\ is.end = Len(input)
    /\ 0 <= is.next /\ is.next <= is.end
    /\ \A off \in is.touched : 0 <= off /\ off < Len(input)

\* A 16-bit literal read with exactly one byte left, by a reader whose bit
\* count an unguarded remove has wrapped.
C1_Witness ==
    /\ last.op = "read_u16"
    /\ is.bitsleft < 0
    /\ Left(Pre) = 1
    /\ Pre.next > 0

\* C2: read(n_1), ..., read(n_k) on a freshly initialised reader over the
\* buffer the reference writer made of a bit sequence return the successive
\* n_i-bit groups of that sequence, for every chunking with n_i in 0..16;
\* read(0) returns 0 and changes nothing.
C2_RoundTrip ==
    last.op = "read" =>
        /\ rpos >= 0 =>
               last.ret = Widen(BitsValue(SubSeq(bits, rpos - last.n + 1, rpos)))
        /\ last.n = 0 => last.ret = Zero32 /\ is = Pre

\* A whole two-unit sequence read back, the last chunk of 7 bits ending it.
C2_Witness ==
    /\ last.op = "read"
    /\ last.n = 7
    /\ rpos = Len(bits)
    /\ Len(bits) > UnitBits
    /\ Pre.bitsleft < 7

\* C5: a literal read that finds too few bytes left returns 0 (read_byte,
\* read_u16, read_u32) or NULL with nothing copied (read_bytes) and leaves the
\* cursor where it was; otherwise it advances the cursor by exactly 1, 2, 4 or
\* count bytes and returns the little endian value, or dst + count with the
\* bytes copied.  None of them touches the bit buffer or the bit count.
C5_LiteralReads ==
    /\ last.op \in Literal => SameBits(is, Pre) /\ is.end = Pre.end
    /\ last.op = "read_byte" =>
           IF Left(Pre) = 0
           THEN last.ret = 0 /\ is.next = Pre.next
           ELSE last.ret = input[Pre.next + 1] /\ is.next = Pre.next + 1
    /\ last.op = "read_u16" =>
           IF Left(Pre) < 2
           THEN last.ret = 0 /\ is.next = Pre.next
           ELSE last.ret = Le16At(Pre.next) /\ is.next = Pre.next + 2
    /\ last.op = "read_u32" =>
           IF Left(Pre) < 4
           THEN last.ret = Zero32 /\ is.next = Pre.next
           ELSE /\ Low16(last.ret) = Le16At(Pre.next)
                /\ High16(last.ret) = Le16At(Pre.next + 2)
                /\ is.next = Pre.next + 4
    /\ last.op = "read_bytes" =>
           IF Left(Pre) < last.n
           THEN last.ret = NULL /\ last.out = <<>> /\ is.next = Pre.next
           ELSE /\ last.ret = Ptr(last.n)
                /\ last.out = SubSeq(input, Pre.next + 1, Pre.next + last.n)
                /\ is.next = Pre.next + last.n

\* A 32-bit literal read with one to three bytes left and bits in the bit buffer.
C5_Witness ==
    /\ last.op = "read_u32"
    /\ Left(Pre) \in 1 .. 3
    /\ Pre.bitsleft > 0
    /\ Pre.bitbuf # Zero32

\* C6: ensure(n), n <= 16, on a reader used as documented leaves at least n
\* bits in the bit buffer.  With n bits already there nothing changes;
\* otherwise, with at least 2 input bytes left, the next little endian 16-bit
\* unit is appended below the bits held and the cursor advances by 2, and with
\* fewer than 2 bytes left (also exactly 1) 16 zero bits are appended and the
\* cursor stays.
C6_Ensure ==
    last.op = "ensure" =>
        /\ is.bitsleft >= last.n
        /\ is.end = Pre.end
        /\ IF Pre.bitsleft >= last.n
           THEN SameBits(is, Pre) /\ is.next = Pre.next
           ELSE /\ is.bitsleft = Pre.bitsleft + UnitBits
                /\ SubSeq(is.bitbuf, 1, Pre.bitsleft)
                       = SubSeq(Pre.bitbuf, 1, Pre.bitsleft)
                /\ SubSeq(is.bitbuf, is.bitsleft + 1, BufBits)
                       = Zeros(BufBits - is.bitsleft)
                /\ IF Left(Pre) >= 2
                   THEN /\ is.next = Pre.next + 2
                        /\ SubSeq(is.bitbuf, Pre.bitsleft + 1, is.bitsleft)
                               = ToBits(Le16At(Pre.next), UnitBits)
                   ELSE /\ is.next = Pre.next
                        /\ SubSeq(is.bitbuf, Pre.bitsleft + 1, is.bitsleft)
                               = Zeros(UnitBits)

\* A refill, on top of bits already held, with exactly one byte left.
C6_Witness ==
    /\ last.op = "ensure"
    /\ Pre.bitsleft < last.n
    /\ Pre.bitsleft > 0
    /\ Pre.bitbuf # Zero32
    /\ Left(Pre) = 1

\* The bit buffer holds a whole coding unit of the input from which no bit
\* has been consumed.
WholeUnitHeld(s) == s.bitsleft >= UnitBits /\ s.unit

\* C9 as claimed: align() zeroes the bit buffer and the bit count, leaves the
\* byte cursor unchanged, and does not discard a whole 16-bit coding unit that
\* had been loaded but from which no bit was consumed.
C9_AlignKeepsWholeUnit ==
    last.op = "align" =>
        /\ is.bitbuf = Zero32 /\ is.bitsleft = 0
        /\ is.next = Pre.next
        /\ ~WholeUnitHeld(Pre)

\* C9 as amended: align() zeroes the bit buffer and the bit count and leaves
\* the byte cursor (and the end) unchanged, whatever the bit buffer held: every
\* bit still held is discarded, a whole unconsumed coding unit included, and
\* byte-cursor reads resume after the last unit loaded.
C9_AlignDiscardsAll ==
    last.op = "align" =>
        /\ is.bitbuf = Zero32 /\ is.bitsleft = 0
        /\ is.next = Pre.next /\ is.end = Pre.end
        /\ is.touched = {}

\* align() called while a whole unconsumed coding unit is held.
C9_Witness ==
    /\ last.op = "align"
    /\ WholeUnitHeld(Pre)
    /\ Pre.bitbuf # Zero32

\* C10: in every state reached by using the reader as documented the bit count
\* is at most 31 and the bit buffer is left-justified: its low 32 - bitsleft
\* bits are zero.
C10_LeftJustified ==
    /\ 0 <= is.bitsleft /\ is.bitsleft < BufBits
    /\ \A i \in (is.bitsleft + 1) .. BufBits : is.bitbuf[i] = 0

\* 31 bits held, after some bits were removed, the last of them a one.
C10_Witness ==
    /\ last.op = "ensure"
    /\ Pre.bitsleft = UnitBits - 1
    /\ is.bitsleft = BufBits - 1
    /\ is.bitbuf[BufBits - 1] = 1

(***************************************************************************)
(* Huffman decoding.  A decode table is a flat array of u16 entries,       *)
(* decode_table[k] being the element k + 1 of the sequence.  An entry      *)
(* below 0xC000 ends a decode: among the first 2^table_bits entries it     *)
(* holds the codeword length in its high 5 bits and the symbol in its low  *)
(* 11 bits; past them it is the symbol.  An entry from 0xC000 up is a node *)
(* of a binary tree: its low 14 bits are the index of its two children.    *)
(***************************************************************************)
\* Bounds: the size of the alphabet and the longest codeword allowed.
NumSyms == 4
MaxCodeLen == 3

\* 0xC000, and the widths of the masks 0x7FF and 0x3FFF.
TREE_NODE == 49152
SymBits == 11
IdxBits == 14

TableAt(tbl, k) == IF k >= 0 /\ k < Len(tbl) THEN tbl[k + 1] ELSE 0

LenOf(lens, sym) == lens[sym + 1]
SymsOf(lens) == 0 .. (Len(lens) - 1)
UsedSyms(lens) == {sym \in SymsOf(lens) : LenOf(lens, sym) > 0}
LenCount(lens, len) == Cardinality({sym \in SymsOf(lens) : LenOf(lens, sym) = len})

(***************************************************************************)
(* The canonical code of a code-length array: codewords are assigned in    *)
(* increasing length order and, within a length, increasing symbol order.  *)
(***************************************************************************)
RECURSIVE FirstCode(_, _)
\* The first codeword of length len, as a number.
FirstCode(lens, len) ==
    IF len <= 1 THEN 0
    ELSE 2 * (FirstCode(lens, len - 1) + LenCount(lens, len - 1))

Codeword(lens, sym) ==
    FirstCode(lens, LenOf(lens, sym))
        + Cardinality({t \in SymsOf(lens) :
                           t < sym /\ LenOf(lens, t) = LenOf(lens, sym)})

CodeBits(lens, sym) == ToBits(Codeword(lens, sym), LenOf(lens, sym))

RECURSIVE CodeSpace(_, _, _)
\* The codewords of length max_len that the symbols below sym take up.
CodeSpace(lens, sym, max_len) ==
    IF sym = 0 THEN 0
    ELSE CodeSpace(lens, sym - 1, max_len)
             + (IF LenOf(lens, sym - 1) = 0 THEN 0
                ELSE 2 ^ (max_len - LenOf(lens, sym - 1)))

OverSubscribed(lens, max_len) == CodeSpace(lens, Len(lens), max_len) > 2 ^ max_len
Complete(lens, max_len) == CodeSpace(lens, Len(lens), max_len) = 2 ^ max_len

RECURSIVE SortByLen(_, _)
\* The symbols of a set by increasing codeword length, then symbol.
SortByLen(lens, set) ==
    IF set = {} THEN <<>>
    ELSE LET m == CHOOSE a \in set : \A b \in set :
                      \/ LenOf(lens, a) < LenOf(lens, b)
                      \/ LenOf(lens, a) = LenOf(lens, b) /\ a <= b
         IN  <<m>> \o SortByLen(lens, set \ {m})

\* The entry of the direct-index region at index k.
DirectEntry(lens, table_bits, k) ==
    LET short == {sym \in UsedSyms(lens) :
                     /\ LenOf(lens, sym) <= table_bits
                     /\ Codeword(lens, sym)
                            = k \div (2 ^ (table_bits - LenOf(lens, sym)))}
    IN  IF short = {} THEN 0
        ELSE LET sym == CHOOSE x \in short : TRUE
             IN  LenOf(lens, sym) * (2 ^ SymBits) + sym

RECURSIVE DirectTable(_, _, _)
\* The first n entries of the direct-index region.
DirectTable(lens, table_bits, n) ==
    IF n = 0 THEN <<>>
    ELSE Append(DirectTable(lens, table_bits, n - 1),
                DirectEntry(lens, table_bits, n - 1))

RECURSIVE InsertLong(_, _, _, _, _)
\* Walk the tree of a codeword longer than table_bits from the node at
\* node_idx down its last "extra" bits, making the nodes that are missing,
\* and put the symbol at the leaf.
InsertLong(tbl, node_idx, code, extra, sym) ==
    LET t1 == IF tbl[node_idx + 1] = 0
              THEN [tbl EXCEPT ![node_idx + 1] = TREE_NODE + Len(tbl)] \o <<0, 0>>
              ELSE tbl
        child == (t1[node_idx + 1] % (2 ^ IdxBits))
                     + ((code \div (2 ^ (extra - 1))) % 2)
    IN  IF extra = 1 THEN [t1 EXCEPT ![child + 1] = sym]
        ELSE InsertLong(t1, child, code, extra - 1, sym)

RECURSIVE InsertAll(_, _, _, _)
InsertAll(tbl, lens, table_bits, long) ==
    IF long = <<>> THEN tbl
    ELSE LET sym == Head(long)
             extra == LenOf(lens, sym) - table_bits
             code == Codeword(lens, sym)
         IN  InsertAll(InsertLong(tbl, code \div (2 ^ extra), code, extra, sym),
                       lens, table_bits, Tail(long))

\* The decode table, or <<>> when the lengths are over-subscribed.
make_huffman_decode_table(num_syms, table_bits, lens, max_codeword_len) ==
    IF OverSubscribed(lens, max_codeword_len) THEN <<>>
    ELSE InsertAll(DirectTable(lens, table_bits, 2 ^ table_bits),
                   lens, table_bits,
                   SortByLen(lens, {sym \in 0 .. (num_syms - 1) :
                                        LenOf(lens, sym) > table_bits}))

(***************************************************************************)
(* read_huffsym().  The result records, besides the symbol and the stream, *)
(* the table indices used, the number of turns of the tree loop, whether   *)
(* the first entry ended the decode and that entry, and whether the loop   *)
(* ended: a loop that has run for 32 + (table size) turns reads zero bits  *)
(* only and has come back to an entry it met with the same bits to read,   *)
(* so it never ends.                                                       *)
(***************************************************************************)
\* key_bits for an entry of the tree, ignoring the mask.
tree_key_unmasked(entry, bit) == entry + bit

tree_key(entry, bit) == (entry % (2 ^ IdxBits)) + bit

RECURSIVE tree_loop(_, _, _, _, _, _)
tree_loop(decode_table, first, entry, s, idx, steps) ==
    LET r == bitstream_pop_bits(s, 1)
        key_bits == tree_key(entry, Low16(r[1]))
        e2 == TableAt(decode_table, key_bits)
        res == [sym |-> e2, is |-> r[2], idx |-> idx \cup {key_bits},
                steps |-> steps + 1, fast |-> FALSE, entry |-> first,
                done |-> e2 < TREE_NODE]
    IN  IF e2 >= TREE_NODE /\ steps + 1 < BufBits + Len(decode_table)
        THEN tree_loop(decode_table, first, e2, r[2], idx \cup {key_bits}, steps + 1)
        ELSE res

\* A fast case that removes table_bits bits whatever the codeword length.
read_huffsym_fixed_remove(buf, s, decode_table, table_bits, max_codeword_len) ==
    LET s1 == bitstream_ensure_bits(buf, s, max_codeword_len)
        key_bits == Low16(bitstream_peek_bits(s1, table_bits))
        entry == TableAt(decode_table, key_bits)
    IN  IF entry < TREE_NODE
        THEN [sym |-> entry % (2 ^ SymBits),
              is |-> bitstream_remove_bits(s1, table_bits),
              idx |-> {key_bits}, steps |-> 0, fast |-> TRUE, entry |-> entry,
              done |-> TRUE]
        ELSE tree_loop(decode_table, entry, entry,
                       bitstream_remove_bits(s1, table_bits), {key_bits}, 0)

read_huffsym(buf, s, decode_table, table_bits, max_codeword_len) ==
    LET s1 == bitstream_ensure_bits(buf, s, max_codeword_len)
        key_bits == Low16(bitstream_peek_bits(s1, table_bits))
        entry == TableAt(decode_table, key_bits)
    IN  IF entry < TREE_NODE
        THEN [sym |-> entry % (2 ^ SymBits),
              is |-> bitstream_remove_bits(s1, entry \div (2 ^ SymBits)),
              idx |-> {key_bits}, steps |-> 0, fast |-> TRUE, entry |-> entry,
              done |-> TRUE]
        ELSE tree_loop(decode_table, entry, entry,
                       bitstream_remove_bits(s1, table_bits), {key_bits}, 0)

(***************************************************************************)
(* The Huffman inputs: every code-length array over the alphabet that     *)
(* describes a complete code, each of them also with one symbol unused     *)
(* (an under-subscribed code) and the empty code; every table_bits; and a  *)
(* stream that is the canonical encoding of a sequence in which every used *)
(* symbol occurs twice, whole or with its last byte missing.  Decoding     *)
(* goes on past the end of the stream, on an exhausted buffer.             *)
(***************************************************************************)
CompleteArrays ==
    {lens \in [1 .. NumSyms -> 0 .. MaxCodeLen] : Complete(lens, MaxCodeLen)}

Without(lens, i) == [k \in 1 .. Len(lens) |-> IF k = i THEN 0 ELSE lens[k]]

LensArrays ==
    CompleteArrays
        \cup {Without(lens, i) : lens \in CompleteArrays, i \in 1 .. NumSyms}
        \cup {[k \in 1 .. NumSyms |-> 0]}

Reverse(seq) == [i \in 1 .. Len(seq) |-> seq[Len(seq) + 1 - i]]

SymSeq(lens) ==
    LET u == SortByLen(lens, UsedSyms(lens))
    IN  u \o Reverse(u)

RECURSIVE Encode(_, _)
Encode(lens, syms) ==
    IF syms = <<>> THEN <<>>
    ELSE CodeBits(lens, Head(syms)) \o Encode(lens, Tail(syms))

InitHuff ==
    /\ obuf = NoOutput
    /\ \E lens \in LensArrays, table_bits \in 1 .. MaxCodeLen :
           LET syms == SymSeq(lens) IN
               /\ hst = [lens |-> lens, table_bits |-> table_bits,
                         max_codeword_len |-> MaxCodeLen,
                         decode_table |->
                             make_huffman_decode_table(NumSyms, table_bits,
                                                       lens, MaxCodeLen),
                         syms |-> syms]
               /\ bits = Encode(lens, syms)
    /\ \E cut \in 0 .. 1 : input = Truncate(RefWrite(bits), cut)
    /\ InitReader
    /\ rpos = 0

ReadHuffsym ==
    /\ LET r == read_huffsym(input, Clean(is), hst.decode_table,
                             hst.table_bits, hst.max_codeword_len)
       IN  /\ Capped(r.is.bitsleft)
           /\ is' = r.is
           /\ last' = Rec("read_huffsym", 0, r.sym,
                          [idx |-> r.idx, steps |-> r.steps, fast |-> r.fast,
                           entry |-> r.entry, done |-> r.done])
    /\ rpos' = IF rpos >= 0 /\ rpos < Len(hst.syms) /\ Len(input) = Len(RefWrite(bits))
               THEN rpos + 1 ELSE -1
    /\ UNCHANGED <<input, bits, hst, obuf>>

NextHuff == ReadHuffsym

SpecHuff == InitHuff /\ [][NextHuff]_vars

(***************************************************************************)
(* Properties of the Huffman symbol reader.                                *)
(***************************************************************************)
Walk == last.out

\* The bits a call of read_huffsym() has removed: the bits held before, plus
\* the 16 of the refill if there was one, minus the bits held after.
Refilled == Pre.bitsleft < hst.max_codeword_len
Consumed ==
    Pre.bitsleft + (IF Refilled THEN UnitBits ELSE 0) - is.bitsleft

\* The bits ahead of a call: those held, then the next coding unit of the
\* input, or 16 zero bits when fewer than 2 bytes are left.
Ahead ==
    SubSeq(Pre.bitbuf, 1, Pre.bitsleft)
        \o (IF Left(Pre) >= 2 THEN ToBits(Le16At(Pre.next), UnitBits)
            ELSE Zeros(UnitBits))

\* The codeword of sym is what lies ahead.
IsAhead(sym) ==
    CodeBits(hst.lens, sym) = SubSeq(Ahead, 1, LenOf(hst.lens, sym))

\* C7: read_huffsym() on a table built from a valid code-length array, over
\* any input (whole, truncated, exhausted, empty), ends: the tree loop reaches
\* an entry below 0xC000 within max_codeword_len - table_bits turns, every
\* table index used is inside the table, no input byte past the end is read,
\* and the symbol is the one whose codeword lies ahead when the missing input
\* bits are taken as zeroes.
C7_DecodeEnds ==
    last.op = "read_huffsym" =>
        /\ Walk.done
        /\ last.ret < TREE_NODE
        /\ Walk.fast => Walk.steps = 0
        /\ ~Walk.fast => /\ Walk.steps >= 1
                         /\ Walk.steps <= hst.max_codeword_len - hst.table_bits
        /\ \A k \in Walk.idx : 0 <= k /\ k < Len(hst.decode_table)
        /\ \A off \in is.touched : 0 <= off /\ off < Len(input)
        /\ is.next <= is.end
        /\ \A sym \in UsedSyms(hst.lens) :
               IsAhead(sym) => last.ret = sym /\ Consumed = LenOf(hst.lens, sym)

\* A decode through the tree loop that needed a refill with a single byte
\* left: bits it walked on are padding.
C7_Witness ==
    /\ last.op = "read_huffsym"
    /\ ~Walk.fast
    /\ Walk.steps >= 1
    /\ Refilled
    /\ Left(Pre) = 1

\* C8: for a complete code, read_huffsym() called repeatedly over the
\* canonical encoding of a symbol sequence returns the sequence, each call
\* consuming exactly the codeword length of its symbol, never more than
\* max_codeword_len bits: the length field of the entry in the fast case,
\* table_bits plus one bit per turn of the tree loop in the slow case.
C8_HuffRoundTrip ==
    (last.op = "read_huffsym" /\ rpos >= 1
         /\ Complete(hst.lens, hst.max_codeword_len)) =>
        /\ last.ret = hst.syms[rpos]
        /\ Consumed = LenOf(hst.lens, last.ret)
        /\ Consumed <= hst.max_codeword_len
        /\ Walk.fast => Consumed = Walk.entry \div (2 ^ SymBits)
        /\ ~Walk.fast => Consumed = hst.table_bits + Walk.steps

\* A symbol in the middle of a sequence, decoded through two turns of the
\* tree loop.
C8_Witness ==
    /\ last.op = "read_huffsym"
    /\ Complete(hst.lens, hst.max_codeword_len)
    /\ rpos >= 2
    /\ ~Walk.fast
    /\ Walk.steps >= 2
    /\ Consumed = hst.max_codeword_len

(***************************************************************************)
(* LZ77 match copying.  The output buffer is a tuple of bytes; offsets     *)
(* count from 0.  A store at or past the end of the buffer is outside      *)
(* defined behaviour: it is recorded in oob and the call is followed no    *)
(* further.                                                                *)
(***************************************************************************)
MaxBuf == 24
MaxLit == 8

WordSizes == {4, 8}

\* FAST_UNALIGNED_ACCESS with a word of 4 or 8 bytes, or neither.
Platforms ==
    {[FAST_UNALIGNED_ACCESS |-> TRUE, WORDSIZE |-> w] : w \in WordSizes}
        \cup {[FAST_UNALIGNED_ACCESS |-> FALSE, WORDSIZE |-> 0]}

MinLengths == {1, 2, 3}

RECURSIVE Tup(_, _)
\* The first n values of f, as a tuple.
Tup(f, n) == IF n = 0 THEN <<>> ELSE Append(Tup(f, n - 1), f[n])

load(mem, p) == IF p >= 0 /\ p < Len(mem.buf) THEN mem.buf[p + 1] ELSE 0

store(mem, p, b) ==
    IF p >= 0 /\ p < Len(mem.buf)
    THEN [mem EXCEPT !.buf[p + 1] = b, !.written = @ \cup {p}]
    ELSE [mem EXCEPT !.oob = TRUE, !.written = @ \cup {p}]

RECURSIVE get_unaligned_word(_, _, _)
\* The n bytes at p, lowest address first.
get_unaligned_word(mem, p, n) ==
    IF n = 0 THEN <<>>
    ELSE <<load(mem, p)>> \o get_unaligned_word(mem, p + 1, n - 1)

RECURSIVE put_unaligned_word(_, _, _)
put_unaligned_word(mem, v, p) ==
    IF v = <<>> THEN mem
    ELSE put_unaligned_word(store(mem, p, Head(v)), Tail(v), p + 1)

copy_unaligned_word(mem, src, dst, wordsize) ==
    put_unaligned_word(mem, get_unaligned_word(mem, src, wordsize), dst)

\* A word as the tuple of its bytes, least significant first: v << (8 * k)
\* and v | w.
ShlWord(v, k) == SubSeq(Tup(Zeros(k), k) \o v, 1, Len(v))
OrByte(a, b) ==
    LET x == ToBits(a, ByteBits)
        y == ToBits(b, ByteBits)
    IN  BitsValue(Tup([i \in 1 .. ByteBits |-> IF x[i] + y[i] > 0 THEN 1 ELSE 0],
                      ByteBits))
OrWord(v, w) == Tup([i \in 1 .. Len(v) |-> OrByte(v[i], w[i])], Len(v))

repeat_byte(b, wordsize) ==
    LET v0 == <<b>> \o Tup(Zeros(wordsize - 1), wordsize - 1)
        v1 == OrWord(v0, ShlWord(v0, 1))
        v2 == OrWord(v1, ShlWord(v1, 2))
    IN  OrWord(v2, ShlWord(v2, IF wordsize = 8 THEN 4 ELSE 0))

\* A word copy that asks for no slack after the end of the match.
word_copy_no_slack(bufend, end, wordsize) == bufend - end >= 0

\* bufend - end >= (ptrdiff_t)(WORDSIZE - 1)
word_copy_allowed(bufend, end, wordsize) == bufend - end >= wordsize - 1

RECURSIVE word_loop(_, _, _, _, _)
\* do { copy_unaligned_word(src, dst); ... } while (dst < end)
word_loop(mem, src, dst, end, wordsize) ==
    LET m == copy_unaligned_word(mem, src, dst, wordsize)
    IN  IF dst + wordsize < end
        THEN word_loop(m, src + wordsize, dst + wordsize, end, wordsize)
        ELSE m

RECURSIVE repeat_loop(_, _, _, _, _)
\* do { put_unaligned_word(v, dst); ... } while (dst < end)
repeat_loop(mem, v, dst, end, wordsize) ==
    LET m == put_unaligned_word(mem, v, dst)
    IN  IF dst + wordsize < end
        THEN repeat_loop(m, v, dst + wordsize, end, wordsize)
        ELSE m

\* *dst++ = *src++; length--;  The length is a u32: a negative number stands
\* for a count that has wrapped below zero.
byte_step(c) ==
    [mem |-> store(c.mem, c.dst, load(c.mem, c.src)),
     src |-> c.src + 1, dst |-> c.dst + 1, length |-> c.length - 1]

RECURSIVE byte_loop(_)
\* do { *dst++ = *src++; } while (--length)
byte_loop(c) ==
    LET d == byte_step(c)
    IN  IF d.length # 0 /\ ~d.mem.oob THEN byte_loop(d) ELSE d

lz_copy(mem, plat, dst, length, offset, bufend, min_length) ==
    LET src == dst - offset
        end == dst + length
        wordsize == plat.WORDSIZE
        word == /\ plat.FAST_UNALIGNED_ACCESS
                /\ word_copy_allowed(bufend, end, wordsize)
    IN  IF word /\ offset >= wordsize
        THEN LET m == copy_unaligned_word(mem, src, dst, wordsize)
             IN  [mem |-> IF dst + wordsize < end
                          THEN word_loop(m, src + wordsize, dst + wordsize,
                                         end, wordsize)
                          ELSE m,
                  ret |-> end, path |-> "word"]
        ELSE IF word /\ offset = 1
        THEN [mem |-> repeat_loop(mem, repeat_byte(load(mem, dst - 1), wordsize),
                                  dst, end, wordsize),
              ret |-> end, path |-> "repeat"]
        ELSE LET c0 == [mem |-> mem, src |-> src, dst |-> dst,
                        length |-> length]
                 c1 == IF min_length >= 2 THEN byte_step(c0) ELSE c0
                 c2 == IF min_length >= 3 THEN byte_step(c1) ELSE c1
                 c3 == byte_loop(c2)
             IN  [mem |-> c3.mem, ret |-> c3.dst, path |-> "bytes"]

RECURSIVE Literals(_)
Literals(k) == IF k = 0 THEN <<>> ELSE Append(Literals(k - 1), k)

\* An output buffer of MaxBuf bytes holding k literal bytes, all different,
\* on one of the platforms: the inputs of one call of lz_copy().
InitCopy ==
    /\ input = <<>>
    /\ bits = <<>>
    /\ InitReader
    /\ rpos = -1
    /\ hst = NoHuff
    /\ \E plat \in Platforms, k \in 1 .. MaxLit :
           obuf = [buf |-> Literals(k) \o Tup(Zeros(MaxBuf - k), MaxBuf - k),
                   dst |-> k, bufend |-> MaxBuf, plat |-> plat,
                   oob |-> FALSE, copied |-> FALSE]

\* A call of lz_copy() with arguments that meet its stated preconditions:
\* the match does not start before the buffer, does not end after it, and
\* is not empty.
LzCopy ==
    /\ ~obuf.copied
    /\ \E length \in 1 .. MaxBuf, offset \in 1 .. MaxBuf,
          min_length \in MinLengths :
           /\ offset <= obuf.dst
           /\ obuf.dst + length <= obuf.bufend
           /\ LET r == lz_copy([buf |-> obuf.buf, oob |-> FALSE,
                                written |-> {}],
                               obuf.plat, obuf.dst, length, offset,
                               obuf.bufend, min_length)
              IN  /\ obuf' = [obuf EXCEPT !.buf = r.mem.buf, !.dst = r.ret,
                                          !.oob = r.mem.oob,
                                          !.copied = TRUE]
                  /\ last' = [op |-> "lz_copy",
                              n |-> [length |-> length, offset |-> offset,
                                     min_length |-> min_length],
                              ret |-> r.ret,
                              out |-> [path |-> r.path,
                                       written |-> r.mem.written,
                                       oob |-> r.mem.oob],
                              pre |-> obuf]
    /\ UNCHANGED <<input, bits, is, rpos, hst>>

NextCopy == LzCopy

SpecCopy == InitCopy /\ [][NextCopy]_vars

(***************************************************************************)
(* Properties of match copying.                                            *)
(***************************************************************************)
RECURSIVE RefCopy(_, _, _, _)
\* The reference: length bytes from dst - offset to dst, one at a time, left
\* to right.
RefCopy(buf, dst, length, offset) ==
    IF length = 0 THEN buf
    ELSE RefCopy([buf EXCEPT ![dst + 1] = buf[dst - offset + 1]],
                 dst + 1, length - 1, offset)

Args == last.n
Before == last.pre
MatchEnd == Before.dst + Args.length

\* The bytes of [dst, dst + length) are those of the reference copy, and the
\* call returned dst + length.
CopiedAsReference ==
    /\ SubSeq(obuf.buf, Before.dst + 1, MatchEnd)
           = SubSeq(RefCopy(Before.buf, Before.dst, Args.length, Args.offset),
                    Before.dst + 1, MatchEnd)
    /\ last.ret = MatchEnd

\* C3: for every distance, length and min_length hint with 1 <= distance <=
\* bytes emitted, length >= 1 and dst + length <= bufend, lz_copy() leaves
\* in [dst, dst + length) the bytes of a reference byte-by-byte left-to-right
\* copy and returns dst + length, on the word path and on the bytewise path.
C3_CopyAsReference ==
    last.op = "lz_copy" => CopiedAsReference

\* The same with a hint that is not above the length.
CopyAsReferenceWithinHint ==
    (last.op = "lz_copy" /\ Args.min_length <= Args.length) =>
        CopiedAsReference /\ ~last.out.oob

\* C4: a call of lz_copy() with 1 <= distance <= bytes emitted, min_length
\* <= length and dst + length <= bufend writes only bytes of [dst, bufend);
\* the word path is taken only with bufend - (dst + length) >= WORDSIZE - 1
\* and writes at most WORDSIZE - 1 bytes past dst + length; the bytewise path
\* writes exactly [dst, dst + length).
C4_NoWritePastBufend ==
    (last.op = "lz_copy" /\ Args.min_length <= Args.length) =>
        /\ ~last.out.oob
        /\ \A p \in last.out.written : Before.dst <= p /\ p < Before.bufend
        /\ last.out.path # "bytes" =>
               /\ Before.plat.FAST_UNALIGNED_ACCESS
               /\ Before.bufend - MatchEnd >= Before.plat.WORDSIZE - 1
               /\ \A p \in last.out.written :
                      p < MatchEnd + Before.plat.WORDSIZE - 1
               /\ \A p \in Before.dst .. (MatchEnd - 1) :
                      p \in last.out.written
        /\ last.out.path = "bytes" =>
               last.out.written = Before.dst .. (MatchEnd - 1)

\* A word copy with no more room than it needs: it wrote past the end of the
\* match up to the last byte of the buffer.
C4_Witness ==
    /\ last.op = "lz_copy"
    /\ Args.min_length <= Args.length
    /\ last.out.path = "word"
    /\ MatchEnd < Before.bufend
    /\ (Before.bufend - 1) \in last.out.written

=============================================================================
